---- MODULE Spec2Model ----
(***************************************************************************)
(* A model of main.py, the classifier of sensitive data in e-SIC requests. *)
(*                                                                         *)
(* A Python str is modelled as a sequence of one-character strings, so     *)
(* that slicing, splitting, case mapping and pattern matching are computed *)
(* the way the code computes them.  The characters of the model are those  *)
(* of Latin-1 (U+0000 to U+00FF); offsets are Python's (0-based, a         *)
(* position is the number of characters before it).                        *)
(***************************************************************************)
EXTENDS Integers, Sequences, FiniteSets, TLC

(***************************************************************************)
(* Characters                                                              *)
(***************************************************************************)
Digit == {"0", "1", "2", "3", "4", "5", "6", "7", "8", "9"}

AsciiUpper == {"A", "B", "C", "D", "E", "F", "G", "H", "I", "J", "K", "L", "M",
               "N", "O", "P", "Q", "R", "S", "T", "U", "V", "W", "X", "Y", "Z"}

AsciiLower == {"a", "b", "c", "d", "e", "f", "g", "h", "i", "j", "k", "l", "m",
               "n", "o", "p", "q", "r", "s", "t", "u", "v", "w", "x", "y", "z"}

\* str.lower() on the cased characters of the model: A-Z and the Latin-1
\* capitals.
ToLower == [c \in AsciiUpper \cup
                  {"À", "Á", "Â", "Ã", "Ä", "Å", "Æ", "Ç", "È", "É", "Ê", "Ë",
                   "Ì", "Í", "Î", "Ï", "Ð", "Ñ", "Ò", "Ó", "Ô", "Õ", "Ö", "Ø",
                   "Ù", "Ú", "Û", "Ü", "Ý", "Þ"} |->
    CASE c = "A" -> "a" [] c = "B" -> "b" [] c = "C" -> "c" [] c = "D" -> "d"
      [] c = "E" -> "e" [] c = "F" -> "f" [] c = "G" -> "g" [] c = "H" -> "h"
      [] c = "I" -> "i" [] c = "J" -> "j" [] c = "K" -> "k" [] c = "L" -> "l"
      [] c = "M" -> "m" [] c = "N" -> "n" [] c = "O" -> "o" [] c = "P" -> "p"
      [] c = "Q" -> "q" [] c = "R" -> "r" [] c = "S" -> "s" [] c = "T" -> "t"
      [] c = "U" -> "u" [] c = "V" -> "v" [] c = "W" -> "w" [] c = "X" -> "x"
      [] c = "Y" -> "y" [] c = "Z" -> "z"
      [] c = "À" -> "à" [] c = "Á" -> "á" [] c = "Â" -> "â" [] c = "Ã" -> "ã"
      [] c = "Ä" -> "ä" [] c = "Å" -> "å" [] c = "Æ" -> "æ" [] c = "Ç" -> "ç"
      [] c = "È" -> "è" [] c = "É" -> "é" [] c = "Ê" -> "ê" [] c = "Ë" -> "ë"
      [] c = "Ì" -> "ì" [] c = "Í" -> "í" [] c = "Î" -> "î" [] c = "Ï" -> "ï"
      [] c = "Ð" -> "ð" [] c = "Ñ" -> "ñ" [] c = "Ò" -> "ò" [] c = "Ó" -> "ó"
      [] c = "Ô" -> "ô" [] c = "Õ" -> "õ" [] c = "Ö" -> "ö" [] c = "Ø" -> "ø"
      [] c = "Ù" -> "ù" [] c = "Ú" -> "ú" [] c = "Û" -> "û" [] c = "Ü" -> "ü"
      [] c = "Ý" -> "ý" [] c = "Þ" -> "þ"]

\* The lower-case Latin-1 letters, with the two that have no capital in Latin-1.
Latin1Lower == {ToLower[c] : c \in DOMAIN ToLower \ AsciiUpper} \cup {"ß", "ÿ"}

\* The range À-ÿ of the character class of LOGRADOURO (it holds the signs × and ÷).
Latin1Range == (DOMAIN ToLower \ AsciiUpper) \cup Latin1Lower \cup {"×", "÷"}

\* The no-break space U+00A0.
NBSP == " "

\* str.isspace() / the class \s: the blank, the controls U+0009 to U+000D and
\* U+001C to U+001F, the next-line control U+0085, the no-break space.
Space == {" ", "\t", "\n", "\r", "\f", "", "", "", "", "", "", NBSP}

\* The class \w, on which \b rests: the underscore and what str.isalnum()
\* accepts, the letters (ª, º and µ are letters to Python), the digits, the
\* superscript digits and the fractions.
WordChar == AsciiUpper \cup AsciiLower \cup Digit
            \cup {"_", "ª", "º", "µ", "²", "³", "¹", "¼", "½", "¾"}
            \cup (Latin1Range \ {"×", "÷"})

LowerChar(c) == IF c \in DOMAIN ToLower THEN ToLower[c] ELSE c

\* The capital of a lower-case letter that has one in the model, the character
\* itself otherwise.
UpperChar(c) ==
    IF \E u \in DOMAIN ToLower : ToLower[u] = c
    THEN CHOOSE u \in DOMAIN ToLower : ToLower[u] = c
    ELSE c

\* str.isupper() of one character.
IsUpperChar(c) == c \in DOMAIN ToLower

\* str.isdigit() of one character: the decimal digits and the superscript
\* digits (which \d does not match).
IsDigitChar(c) == c \in Digit \cup {"¹", "²", "³"}

\* str.lower()
Lower(s) == [i \in 1..Len(s) |-> LowerChar(s[i])]

\* s[a:b] for 0 <= a, b <= len(s)
Slice(s, a, b) == IF a >= b THEN <<>> ELSE SubSeq(s, a + 1, b)

Max(a, b) == IF a >= b THEN a ELSE b

\* sub in s (substring containment)
Contains(s, sub) ==
    \E i \in 0..(Len(s) - Len(sub)) : Slice(s, i, i + Len(sub)) = sub

\* s.startswith(p)
StartsWith(s, p) == Len(p) <= Len(s) /\ Slice(s, 0, Len(p)) = p

\* re.sub(r"\D", "", s): the digits of s, in order.
OnlyDigits(s) == SelectSeq(s, LAMBDA c : c \in Digit)

\* int() of a string of decimal digits.
DigitValue == [c \in Digit |->
    CASE c = "0" -> 0 [] c = "1" -> 1 [] c = "2" -> 2 [] c = "3" -> 3
      [] c = "4" -> 4 [] c = "5" -> 5 [] c = "6" -> 6 [] c = "7" -> 7
      [] c = "8" -> 8 [] c = "9" -> 9]

RECURSIVE ToInt(_)
ToInt(d) ==
    IF d = <<>> THEN 0
    ELSE 10 * ToInt(SubSeq(d, 1, Len(d) - 1)) + DigitValue[d[Len(d)]]

(***************************************************************************)
(* str.strip, str.split, str.join                                          *)
(***************************************************************************)
RECURSIVE LStrip(_, _)
\* s.lstrip(chars) with chars a set (the white space when strip() has no argument)
LStrip(s, chars) ==
    IF s # <<>> /\ Head(s) \in chars THEN LStrip(Tail(s), chars) ELSE s

RECURSIVE RStrip(_, _)
RStrip(s, chars) ==
    IF s # <<>> /\ s[Len(s)] \in chars
    THEN RStrip(SubSeq(s, 1, Len(s) - 1), chars)
    ELSE s

Strip(s, chars) == RStrip(LStrip(s, chars), chars)

\* Where the tokens of s start: a character that is not white space, at the
\* start of s or after white space.
TokenStarts(s) ==
    {i \in 1..Len(s) : s[i] \notin Space /\ (i = 1 \/ s[i - 1] \in Space)}

\* Where the token that starts at i ends.
TokenStop(s, i) ==
    CHOOSE e \in i..Len(s) :
        /\ \A k \in i..e : s[k] \notin Space
        /\ e = Len(s) \/ s[e + 1] \in Space

\* s.split(): the maximal runs of characters that are not white space.
Split(s) ==
    LET starts == TokenStarts(s)
        start(j) == CHOOSE i \in starts :
                        Cardinality({k \in starts : k < i}) = j - 1
    IN  [j \in 1..Cardinality(starts) |->
            SubSeq(s, start(j), TokenStop(s, start(j)))]

RECURSIVE Join(_)
\* " ".join(tokens)
Join(tokens) ==
    IF tokens = <<>> THEN <<>>
    ELSE IF Len(tokens) = 1 THEN tokens[1]
    ELSE tokens[1] \o <<" ">> \o Join(Tail(tokens))

(***************************************************************************)
(* The regular expressions of the program, and Python's backtracking       *)
(* matcher for the constructs they use.                                    *)
(*                                                                         *)
(* A pattern is a sequence of items:                                       *)
(*   cls  a character class repeated lo to hi times, greedily              *)
(*        (hi = Unbounded: any number of times);                           *)
(*   dot  one character other than the line feed;                          *)
(*   bnd  the word boundary \b;                                            *)
(*   opt  an optional group (sub[1]), tried present first;                 *)
(*   alt  an alternation (the patterns of sub), tried in order;            *)
(*   gend the end of capturing group 1 (the group opens where the match    *)
(*        starts, in the one pattern that has a group).                    *)
(***************************************************************************)
Unbounded == -1

Cls(S, lo, hi) == [k |-> "cls", s |-> S, lo |-> lo, hi |-> hi, sub |-> <<>>]
One(S) == Cls(S, 1, 1)
Dot == [k |-> "dot", s |-> {}, lo |-> 1, hi |-> 1, sub |-> <<>>]
Bnd == [k |-> "bnd", s |-> {}, lo |-> 0, hi |-> 0, sub |-> <<>>]
GEnd == [k |-> "gend", s |-> {}, lo |-> 0, hi |-> 0, sub |-> <<>>]
Opt(p) == [k |-> "opt", s |-> {}, lo |-> 0, hi |-> 1, sub |-> <<p>>]
Alt(ps) == [k |-> "alt", s |-> {}, lo |-> 1, hi |-> 1, sub |-> ps]

\* A literal word, case-sensitive.
Lit(w) == [i \in 1..Len(w) |-> One({w[i]})]
\* A literal word under re.IGNORECASE.
LitI(w) == [i \in 1..Len(w) |-> One({LowerChar(w[i]), UpperChar(w[i])})]
\* A character class under re.IGNORECASE.
FoldCase(S) == S \cup {LowerChar(c) : c \in S} \cup {UpperChar(c) : c \in S}

NoMatch == [end |-> -1, g |-> -1]

\* \b at position pos of text.
AtBoundary(text, pos) ==
    LET before == pos >= 1 /\ text[pos] \in WordChar
        after == pos < Len(text) /\ text[pos + 1] \in WordChar
    IN  before # after

\* How many characters of class S stand at pos, counted up to hi.
RunLength(S, hi, text, pos) ==
    LET left == Len(text) - pos
        lim == IF hi = Unbounded \/ hi > left THEN left ELSE hi
    IN  CHOOSE n \in 0..lim :
            /\ \A i \in 1..n : text[pos + i] \in S
            /\ n = lim \/ text[pos + n + 1] \notin S

RECURSIVE MatchHere(_, _, _, _)
RECURSIVE TryCount(_, _, _, _, _, _)
RECURSIVE TryAlt(_, _, _, _, _, _)

\* The match of pattern re that starts at pos, as the backtracking matcher finds
\* it: its end and the end of group 1, or NoMatch.
MatchHere(re, text, pos, g) ==
    IF re = <<>> THEN [end |-> pos, g |-> g]
    ELSE LET it == Head(re)
             rest == Tail(re)
         IN  CASE it.k = "bnd" ->
                    IF AtBoundary(text, pos) THEN MatchHere(rest, text, pos, g)
                    ELSE NoMatch
               [] it.k = "gend" -> MatchHere(rest, text, pos, pos)
               [] it.k = "dot" ->
                    IF pos < Len(text) /\ text[pos + 1] # "\n"
                    THEN MatchHere(rest, text, pos + 1, g)
                    ELSE NoMatch
               [] it.k = "cls" ->
                    TryCount(it.lo, rest, text, pos, g,
                             RunLength(it.s, it.hi, text, pos))
               [] it.k = "opt" ->
                    LET r == MatchHere(it.sub[1] \o rest, text, pos, g)
                    IN  IF r.end >= 0 THEN r ELSE MatchHere(rest, text, pos, g)
               [] it.k = "alt" -> TryAlt(it.sub, 1, rest, text, pos, g)

\* A greedy repetition: n characters first, then fewer, down to lo.
TryCount(lo, rest, text, pos, g, n) ==
    IF n < lo THEN NoMatch
    ELSE LET r == MatchHere(rest, text, pos + n, g)
         IN  IF r.end >= 0 THEN r ELSE TryCount(lo, rest, text, pos, g, n - 1)

TryAlt(alts, i, rest, text, pos, g) ==
    IF i > Len(alts) THEN NoMatch
    ELSE LET r == MatchHere(alts[i] \o rest, text, pos, g)
         IN  IF r.end >= 0 THEN r ELSE TryAlt(alts, i + 1, rest, text, pos, g)

\* The smallest element of a non-empty set of integers.
Min(S) == CHOOSE m \in S : \A n \in S : m <= n

\* The smallest element of a set of positions, -1 when there is none.
MinOrNone(S) == IF S = {} THEN -1 ELSE Min(S)

\* Where the search of re from pos on finds its match: the first position from
\* which the matcher succeeds, -1 when there is none.
FirstStart(re, text, pos) ==
    MinOrNone({p \in pos..Len(text) : MatchHere(re, text, p, -1).end >= 0})

\* Where the search goes on after a match from p to e: at e, one further when
\* the match is empty.
NextPos(p, e) == IF e = p THEN p + 1 ELSE e

RECURSIVE FindIter(_, _, _)
RECURSIVE FindIterAt(_, _, _)
RECURSIVE FindIterWith(_, _, _, _)

\* re.finditer(re, text) from position pos on: the matches, leftmost first, none
\* overlapping another, each as [start, end, g].
FindIter(re, text, pos) == FindIterAt(re, text, FirstStart(re, text, pos))

FindIterAt(re, text, p) ==
    IF p < 0 THEN <<>> ELSE FindIterWith(re, text, p, MatchHere(re, text, p, -1))

FindIterWith(re, text, p, r) ==
    <<[start |-> p, end |-> r.end, g |-> r.g]>>
    \o FindIter(re, text, NextPos(p, r.end))

\* The substrings of text from start to end (with g: to the end of group 1) of
\* the matches ms.
Matched(text, ms, g) ==
    [i \in 1..Len(ms) |->
        Slice(text, ms[i].start, IF g THEN ms[i].g ELSE ms[i].end)]

\* pattern.findall(text) of a pattern without a group: the matched substrings.
FindAll(re, text) == Matched(text, FindIter(re, text, 0), FALSE)

\* pattern.findall(text) of a pattern with one group: what the group matched,
\* and not the whole match.
FindAllGroup(re, text) == Matched(text, FindIter(re, text, 0), TRUE)

\* The set of the elements of a sequence.
Range(s) == {s[i] : i \in 1..Len(s)}

CPF ==
    <<Bnd, Cls(Digit, 3, 3), Cls({"."}, 0, 1), Cls(Digit, 3, 3), Cls({"."}, 0, 1),
      Cls(Digit, 3, 3), Cls({"-"}, 0, 1), Cls(Digit, 1, 2), Bnd>>

RG ==
    <<Bnd, Cls(Digit, 1, 2), Cls({"."}, 0, 1), Cls(Digit, 3, 3), Cls({"."}, 0, 1),
      Cls(Digit, 3, 3), Cls({"-"}, 0, 1), One(Digit \cup {"X", "x"}), Bnd>>

EMAIL ==
    <<Bnd,
      Cls(AsciiUpper \cup AsciiLower \cup Digit \cup {".", "_", "%", "+", "-"},
          1, Unbounded),
      One({"@"}),
      Cls(AsciiUpper \cup AsciiLower \cup Digit \cup {".", "-"}, 1, Unbounded),
      One({"."}),
      Cls(AsciiUpper \cup AsciiLower, 2, Unbounded),
      Bnd>>

TELEFONE ==
    <<Bnd,
      Opt(<<One({"+"}), One({"5"}), One({"5"}), Cls(Space, 0, 1)>>),
      Opt(<<Cls({"("}, 0, 1), Cls(Digit, 2, 2), Cls({")"}, 0, 1), Cls(Space, 0, 1)>>),
      Cls({"9"}, 0, 1), Cls(Digit, 4, 4), Cls({"-"}, 0, 1), Cls(Digit, 4, 4),
      Bnd>>

LOGRADOURO ==
    <<Bnd,
      Alt(<<LitI(<<"R", "u", "a">>), LitI(<<"R", ".">>), LitI(<<"A", "v", "e", "n", "i", "d", "a">>),
            LitI(<<"A", "v">>) \o <<Cls({"."}, 0, 1)>>, LitI(<<"T", "r", "a", "v", "e", "s", "s", "a">>),
            LitI(<<"T", "v">>) \o <<Cls({"."}, 0, 1)>>, LitI(<<"A", "l", "a", "m", "e", "d", "a">>),
            LitI(<<"E", "s", "t", "r", "a", "d", "a">>), LitI(<<"R", "o", "d", "o", "v", "i", "a">>)>>),
      Cls(Space, 1, Unbounded),
      Cls(FoldCase(AsciiUpper \cup AsciiLower \cup Latin1Range \cup Digit) \cup Space,
          3, Unbounded)>>

QUADRA_LOTE ==
    <<Bnd,
      Alt(<<LitI(<<"Q", "d">>) \o <<Cls({"."}, 0, 1)>>, LitI(<<"Q", "u", "a", "d", "r", "a">>),
            LitI(<<"L", "t">>) \o <<Cls({"."}, 0, 1)>>, LitI(<<"L", "o", "t", "e">>), LitI(<<"B", "l", "o", "c", "o">>),
            LitI(<<"B", "L", "C">>), LitI(<<"C", "o", "n", "j", "u", "n", "t", "o">>), LitI(<<"C", "J">>)>>),
      GEnd,
      Cls(Space, 0, Unbounded),
      Cls(AsciiUpper \cup AsciiLower \cup Digit \cup {"-"}, 1, Unbounded),
      Bnd>>

(***************************************************************************)
(* The vocabularies (read-only configuration)                              *)
(***************************************************************************)
PALAVRAS_PROIBIDAS ==
    {<<"a", "s", "s", "o", "c", "i", "a", "ç", "ã", "o">>, <<"a", "s", "s", "o", "c", "i", "a", "d", "o", "s">>, <<"a", "d", "v", "o", "g", "a", "d", "o", "s">>,
     <<"s", "o", "c", "i", "e", "d", "a", "d", "e">>, <<"s", "e", "r", "v", "i", "d", "o", "r", "e", "s">>, <<"s", "e", "t", "o", "r">>,
     <<"r", "e", "c", "u", "r", "s", "o", "s">>, <<"c", "o", "l", "e", "t", "i", "v", "a">>, <<"m", "a", "g", "i", "s", "t", "é", "r", "i", "o">>,
     <<"t", "e", "l", "e", "f", "ô", "n", "i", "c", "a", "s">>, <<"a", "m", "o", "s", "t", "r", "a">>, <<"t", "o", "t", "a", "l">>,
     <<"t", "e", "m", "p", "e", "r", "a", "t", "u", "r", "a">>, <<"f", "ó", "s", "f", "o", "r", "o">>, <<"n", "i", "t", "r", "o", "g", "ê", "n", "i", "o">>,
     <<"o", "x", "i", "g", "ê", "n", "i", "o">>, <<"v", "a", "l", "i", "d", "a", "d", "o", "r">>, <<"s", "ó", "l", "i", "d", "o", "s">>,
     <<"t", "o", "t", "a", "i", "s">>, <<"g", "o", "s", "t", "a", "r", "i", "a">>, <<"g", "o", "s", "t", "a", "r">>, <<"v", "e", "n", "h", "o">>}

PREPOSICOES_NOME == {<<"d", "a">>, <<"d", "e">>, <<"d", "o">>, <<"d", "a", "s">>, <<"d", "o", "s">>, <<"e">>}

TITULOS ==
    {<<"d", "r">>, <<"d", "r", ".">>, <<"d", "r", "a">>, <<"d", "r", "a", ".">>,
     <<"s", "r">>, <<"s", "r", ".">>, <<"s", "r", "a">>, <<"s", "r", "a", ".">>,
     <<"p", "r", "o", "f">>, <<"p", "r", "o", "f", ".">>, <<"p", "r", "o", "f", "ª">>, <<"p", "r", "o", "f", "ª", ".">>,
     <<"d", "o", "u", "t", "o", "r">>, <<"d", "o", "u", "t", "o", "r", "a">>, <<"d", "o", "u", "t", "o", "r", "ª">>,
     <<"d", "o", "u", "t", "o", "r", "ª", ".">>, <<"d", "o", "u", "t", "o", "r", ".">>, <<"d", "o", "u", "t", "o", "r", "a", ".">>}

SUFIXOS_LIXO == {<<"c", "p", "f">>, <<"c", "n", "h">>, <<"r", "g">>, <<"n", "o", "m", "e">>}

TRATAMENTOS_FORMAIS ==
    {<<"v", "o", "s", "s", "a", " ", "s", "e", "n", "h", "o", "r", "i", "a">>, <<"v", "o", "s", "s", "a", " ", "e", "x", "c", "e", "l", "ê", "n", "c", "i", "a">>, <<"v", "o", "s", "s", "a", " ", "m", "a", "g", "n", "i", "f", "i", "c", "ê", "n", "c", "i", "a">>,
     <<"v", "o", "s", "s", "a", " ", "a", "l", "t", "e", "z", "a">>, <<"v", "o", "s", "s", "a", " ", "s", "a", "n", "t", "i", "d", "a", "d", "e">>,
     <<"v", ".", " ", "s", ".">>, <<"v", ".", "s", ".">>, <<"v", ".", " ", "e", "x", "a", ".">>, <<"v", ".", "e", "x", "a", ".">>, <<"v", ".", " ", "e", "x", "ª">>, <<"v", ".", "e", "x", "ª">>,
     <<"i", "l", "u", "s", "t", "r", "í", "s", "s", "i", "m", "o", " ", "s", "e", "n", "h", "o", "r">>, <<"i", "l", "u", "s", "t", "r", "í", "s", "s", "i", "m", "a", " ", "s", "e", "n", "h", "o", "r", "a">>,
     <<"e", "x", "c", "e", "l", "e", "n", "t", "í", "s", "s", "i", "m", "o", " ", "s", "e", "n", "h", "o", "r">>, <<"e", "x", "c", "e", "l", "e", "n", "t", "í", "s", "s", "i", "m", "a", " ", "s", "e", "n", "h", "o", "r", "a">>,
     <<"d", "i", "g", "n", "í", "s", "s", "i", "m", "o", " ", "s", "e", "n", "h", "o", "r">>, <<"d", "i", "g", "n", "í", "s", "s", "i", "m", "a", " ", "s", "e", "n", "h", "o", "r", "a">>,
     <<"m", "e", "r", "i", "t", "í", "s", "s", "i", "m", "o", " ", "j", "u", "i", "z">>, <<"m", "e", "r", "i", "t", "í", "s", "s", "i", "m", "a", " ", "j", "u", "í", "z", "a">>,
     <<"s", "e", "n", "h", "o", "r", " ", "s", "e", "c", "r", "e", "t", "á", "r", "i", "o">>, <<"s", "e", "n", "h", "o", "r", "a", " ", "s", "e", "c", "r", "e", "t", "á", "r", "i", "a">>,
     <<"s", "e", "n", "h", "o", "r", " ", "m", "i", "n", "i", "s", "t", "r", "o">>, <<"s", "e", "n", "h", "o", "r", "a", " ", "m", "i", "n", "i", "s", "t", "r", "a">>,
     <<"s", "e", "n", "h", "o", "r", " ", "g", "o", "v", "e", "r", "n", "a", "d", "o", "r">>, <<"s", "e", "n", "h", "o", "r", "a", " ", "g", "o", "v", "e", "r", "n", "a", "d", "o", "r", "a">>,
     <<"s", "e", "n", "h", "o", "r", " ", "p", "r", "e", "f", "e", "i", "t", "o">>, <<"s", "e", "n", "h", "o", "r", "a", " ", "p", "r", "e", "f", "e", "i", "t", "a">>,
     <<"s", "e", "n", "h", "o", "r", " ", "p", "r", "e", "s", "i", "d", "e", "n", "t", "e">>, <<"s", "e", "n", "h", "o", "r", "a", " ", "p", "r", "e", "s", "i", "d", "e", "n", "t", "e">>,
     <<"s", "e", "n", "h", "o", "r", " ", "j", "u", "i", "z">>, <<"s", "e", "n", "h", "o", "r", "a", " ", "j", "u", "í", "z", "a">>,
     <<"s", "e", "n", "h", "o", "r", " ", "d", "e", "s", "e", "m", "b", "a", "r", "g", "a", "d", "o", "r">>, <<"s", "e", "n", "h", "o", "r", "a", " ", "d", "e", "s", "e", "m", "b", "a", "r", "g", "a", "d", "o", "r", "a">>,
     <<"s", "e", "n", "h", "o", "r", " ", "p", "r", "o", "m", "o", "t", "o", "r">>, <<"s", "e", "n", "h", "o", "r", "a", " ", "p", "r", "o", "m", "o", "t", "o", "r", "a">>,
     <<"s", "e", "n", "h", "o", "r", " ", "p", "r", "o", "c", "u", "r", "a", "d", "o", "r">>, <<"s", "e", "n", "h", "o", "r", "a", " ", "p", "r", "o", "c", "u", "r", "a", "d", "o", "r", "a">>,
     <<"i", "l", "u", "s", "t", "r", "e", "s", " ", "s", "e", "n", "h", "o", "r", "e", "s">>, <<"i", "l", "u", "s", "t", "r", "e", "s", " ", "s", "e", "n", "h", "o", "r", "a", "s">>,
     <<"v", "o", "s", "s", "a", "s", " ", "s", "e", "n", "h", "o", "r", "i", "a", "s">>, <<"v", "o", "s", "s", "a", "s", " ", "e", "x", "c", "e", "l", "ê", "n", "c", "i", "a", "s">>}

\* The pronouns that nome_valido refuses as a first token.
PRONOMES == {<<"n", "o", "s", "s", "a">>, <<"n", "o", "s", "s", "o">>, <<"s", "u", "a", "s">>, <<"s", "e", "u", "s">>}

(***************************************************************************)
(* Text normalization                                                      *)
(***************************************************************************)
\* text.strip().replace(NBSP, " ")
normalize(text) ==
    LET t == Strip(text, Space)
    IN  [i \in 1..Len(t) |-> IF t[i] = NBSP THEN " " ELSE t[i]]

(***************************************************************************)
(* Name cleaning and validation                                            *)
(***************************************************************************)
RECURSIVE PopSufixos(_)
\* while tokens and tokens[-1].lower().strip(":") in SUFIXOS_LIXO: tokens.pop()
PopSufixos(tokens) ==
    IF tokens # <<>> /\ Strip(Lower(tokens[Len(tokens)]), {":"}) \in SUFIXOS_LIXO
    THEN PopSufixos(SubSeq(tokens, 1, Len(tokens) - 1))
    ELSE tokens

limpar_sufixos(nome) == Join(PopSufixos(Split(nome)))

\* limpar_titulos comparing t, and not t.lower(), with TITULOS.
limpar_titulos_sem_lower(nome) ==
    Join(SelectSeq(Split(nome), LAMBDA t : t \notin TITULOS))

limpar_titulos(nome) ==
    Join(SelectSeq(Split(nome), LAMBDA t : Lower(t) \notin TITULOS))

RECURSIVE NomeTokensOk_sem_preposicoes(_, _)
\* The loop of nome_valido without the continue for the connectors.
NomeTokensOk_sem_preposicoes(tokens, i) ==
    IF i > Len(tokens) THEN TRUE
    ELSE IF Lower(tokens[i]) \in PALAVRAS_PROIBIDAS THEN FALSE
    ELSE IF ~IsUpperChar(tokens[i][1]) THEN FALSE
    ELSE NomeTokensOk_sem_preposicoes(tokens, i + 1)

RECURSIVE NomeTokensOk(_, _)
\* The loop of nome_valido over the tokens, from token i on.
NomeTokensOk(tokens, i) ==
    IF i > Len(tokens) THEN TRUE
    ELSE LET tok == tokens[i]
             tok_lower == Lower(tok)
         IN  IF tok_lower \in PREPOSICOES_NOME THEN NomeTokensOk(tokens, i + 1)
             ELSE IF tok_lower \in PALAVRAS_PROIBIDAS THEN FALSE
             ELSE IF ~IsUpperChar(tok[1]) THEN FALSE
             ELSE NomeTokensOk(tokens, i + 1)

nome_valido(nome) ==
    LET tokens == Split(nome)
    IN  IF Len(tokens) < 2 \/ Len(tokens) > 7 THEN FALSE
        ELSE IF Lower(tokens[1]) \in PRONOMES THEN FALSE
        ELSE IF tokens[1] = tokens[Len(tokens)] THEN FALSE
        ELSE NomeTokensOk(tokens, 1)

RECURSIVE NomesDe(_, _)
\* The loop of extract_names over doc.ents: the set nomes once the entities
\* from the i-th on are handled.  An entity is [text, label].
NomesDe(ents, i) ==
    IF i > Len(ents) THEN {}
    ELSE LET ent == ents[i]
             raw == Strip(ent.text, Space)
             raw_norm == Lower(raw)
             clean == limpar_sufixos(limpar_titulos(raw))
         IN  IF ent.label # "PER" THEN NomesDe(ents, i + 1)
             ELSE IF \E t \in TRATAMENTOS_FORMAIS : StartsWith(raw_norm, t)
                  THEN NomesDe(ents, i + 1)
             ELSE IF nome_valido(clean) THEN {clean} \cup NomesDe(ents, i + 1)
             ELSE NomesDe(ents, i + 1)

\* extract_names, given what the recognizer returned for the text: the set of
\* names (the code returns list(nomes), the set in an order of Python's choosing).
extract_names(ents) == NomesDe(ents, 1)

(***************************************************************************)
(* Validators                                                              *)
(***************************************************************************)
endereco_valido(e) ==
    LET e_lower == Lower(e)
        tem_logradouro ==
            \E p \in {<<"r", "u", "a">>, <<"a", "v", "e", "n", "i", "d", "a">>, <<"a", "v">>, <<"q", "u", "a", "d", "r", "a">>, <<"l", "o", "t", "e">>, <<"b", "l", "o", "c", "o">>} :
                Contains(e_lower, p)
        tem_numero == \E i \in 1..Len(e) : IsDigitChar(e[i])
    IN  tem_logradouro /\ tem_numero

\* telefone_valido with 10 <= ddd for 11 <= ddd.
telefone_valido_ddd_10(tel) ==
    LET digits == OnlyDigits(tel)
    IN  IF Len(digits) \notin {10, 11} THEN FALSE
        ELSE LET ddd == ToInt(Slice(digits, 0, 2))
             IN  10 <= ddd /\ ddd <= 99

telefone_valido(tel) ==
    LET digits == OnlyDigits(tel)
    IN  IF Len(digits) \notin {10, 11} THEN FALSE
        ELSE LET ddd == ToInt(Slice(digits, 0, 2))
             IN  11 <= ddd /\ ddd <= 99

\* The length of janela: text[max(0, m.start()-15):m.start()].
JANELA == 15

\* re.compile(rg) for a candidate of RG: a point of the candidate is the regular
\* expression's point, which stands for any character; digits, the hyphen, X and
\* x stand for themselves.
CompileCandidate(rg) ==
    [i \in 1..Len(rg) |-> IF rg[i] = "." THEN Dot ELSE One({rg[i]})]

\* janela = text[max(0, m.start()-15):m.start()].lower() holds a keyword.
JanelaTemChave(text, start) ==
    \E p \in {<<"r", "g">>, <<"r", "e", "g", "i", "s", "t", "r", "o", " ", "g", "e", "r", "a", "l">>, <<"i", "d", "e", "n", "t", "i", "d", "a", "d", "e">>} :
        Contains(Lower(Slice(text, Max(0, start - JANELA), start)), p)

\* The loop of rg_valido over the matches ms.
AlgumaJanela(text, ms) == \E i \in 1..Len(ms) : JanelaTemChave(text, ms[i].start)

rg_valido(rg, text) ==
    IF ~(7 <= Len(OnlyDigits(rg)) /\ Len(OnlyDigits(rg)) <= 9) THEN FALSE
    ELSE AlgumaJanela(text, FindIter(CompileCandidate(rg), text, 0))

\* cpf_formato_valido without the re.sub that strips the punctuation.
cpf_formato_sem_limpar(cpf) == Len(cpf) = 11

cpf_formato_valido(cpf) == Len(OnlyDigits(cpf)) = 11

(***************************************************************************)
(* Extraction                                                              *)
(***************************************************************************)
\* extract(pattern, text) is list(set(pattern.findall(text))): the set of the
\* matches, listed in an order of Python's choosing.
extract(pattern, text) == Range(FindAll(pattern, text))

\* The candidates of extract_endereco: LOGRADOURO's matches and, QUADRA_LOTE
\* having a capturing group, what that group matched.
encontrados(text) == FindAll(LOGRADOURO, text) \o FindAllGroup(QUADRA_LOTE, text)

extract_endereco(text) == {e \in Range(encontrados(text)) : endereco_valido(e)}

\* extract_all, each list as the set of its values.
extract_all(text) ==
    [cpf |-> {c \in extract(CPF, text) : cpf_formato_valido(c)},
     rg |-> {r \in extract(RG, text) : rg_valido(r, text)},
     email |-> extract(EMAIL, text),
     telefone |-> {t \in extract(TELEFONE, text) : telefone_valido(t)},
     endereco |-> extract_endereco(text)]

\* The lists a set may be turned into by list(): its elements once each, in any
\* order.
Listas(S) == {l \in [1..Cardinality(S) -> S] : Range(l) = S}

\* The mappings extract_all may return, its lists being sets in some order.
Mapeados(e) ==
    {[cpf |-> c, rg |-> r, email |-> m, telefone |-> t, endereco |-> d] :
        c \in Listas(e.cpf), r \in Listas(e.rg), m \in Listas(e.email),
        t \in Listas(e.telefone), d \in Listas(e.endereco)}

(***************************************************************************)
(* Conflict resolution and classification                                  *)
(***************************************************************************)
\* pii.get(campo, [])
Get(pii, campo) == IF campo \in DOMAIN pii THEN pii[campo] ELSE <<>>

RECURSIVE Filtrar_no_inicio(_, _, _, _)
\* The inner loop with filtrados.insert(0, v) for filtrados.append(v).
Filtrar_no_inicio(lista, i, filtrados, usados) ==
    IF i > Len(lista) THEN [filtrados |-> filtrados, usados |-> usados]
    ELSE IF lista[i] \notin usados
         THEN Filtrar_no_inicio(lista, i + 1, <<lista[i]>> \o filtrados,
                                usados \cup {lista[i]})
         ELSE Filtrar_no_inicio(lista, i + 1, filtrados, usados)

RECURSIVE Filtrar(_, _, _, _)
\* The inner loop of resolver_conflitos over the values of one campo, from the
\* i-th on: filtrados and usados when it ends.
Filtrar(lista, i, filtrados, usados) ==
    IF i > Len(lista) THEN [filtrados |-> filtrados, usados |-> usados]
    ELSE IF lista[i] \notin usados
         THEN Filtrar(lista, i + 1, Append(filtrados, lista[i]),
                      usados \cup {lista[i]})
         ELSE Filtrar(lista, i + 1, filtrados, usados)

\* The campos of resolver_conflitos, in its order.
CAMPOS == <<"cpf", "rg", "telefone", "endereco">>

RECURSIVE ResolverDe_usados_por_campo(_, _, _)
\* resolver_conflitos with usados = set() inside the loop over the campos: each
\* campo is filtered against its own values only.
ResolverDe_usados_por_campo(pii, j, usados) ==
    IF j > Len(CAMPOS) THEN pii
    ELSE LET campo == CAMPOS[j]
             r == Filtrar(Get(pii, campo), 1, <<>>, {})
             novo == [k \in DOMAIN pii \cup {campo} |->
                         IF k = campo THEN r.filtrados ELSE pii[k]]
         IN  ResolverDe_usados_por_campo(novo, j + 1, r.usados)

RECURSIVE ResolverDe(_, _, _)
\* The outer loop of resolver_conflitos, from the j-th campo on.
ResolverDe(pii, j, usados) ==
    IF j > Len(CAMPOS) THEN pii
    ELSE LET campo == CAMPOS[j]
             r == Filtrar(Get(pii, campo), 1, <<>>, usados)
             novo == [k \in DOMAIN pii \cup {campo} |->
                         IF k = campo THEN r.filtrados ELSE pii[k]]
         IN  ResolverDe(novo, j + 1, r.usados)

resolver_conflitos(pii) == ResolverDe(pii, 1, {})

\* PII_FORTE without the names.
PII_FORTE_sem_nome == {"cpf", "rg", "endereco", "email", "telefone"}

PII_FORTE == {"cpf", "rg", "endereco", "email", "telefone", "nome"}

PUBLICO == "PÚBLICO"
NAO_PUBLICO == "NÃO PÚBLICO"

classificar_pedido(pii) ==
    IF \E k \in PII_FORTE : pii[k] # <<>> THEN NAO_PUBLICO ELSE PUBLICO

(***************************************************************************)
(* The lazily loaded recognizer                                            *)
(***************************************************************************)
\* _nlp = None: no instance (the instances are numbered from 1)
None == 0

\* get_nlp without the test of _nlp: spacy.load runs at every call.
get_nlp_sempre_carrega(n, l) == [nlp |-> l + 1, loads |-> l + 1]

\* get_nlp(): what _nlp holds and how many times spacy.load has run, given
\* what they were.  The n-th model that spacy.load builds is the instance n.
get_nlp(n, l) ==
    IF n = None THEN [nlp |-> l + 1, loads |-> l + 1]
    ELSE [nlp |-> n, loads |-> l]

(***************************************************************************)
(* Bounds and inputs                                                       *)
(***************************************************************************)
\* A record of the source is made of at most MaxFrags fragments of one corpus.
MaxFrags == 3
\* The recognizer returns at most MaxEnts entities for a text.
MaxEnts == 1
\* The lists of an arbitrary mapping handed to resolver_conflitos hold at most
\* MaxLista values.
MaxLista == 2
\* An arbitrary entity text has at most MaxMeio tokens between its first two
\* and its last.
MaxMeio == 5
\* spacy.load is counted up to MaxLoads runs.
MaxLoads == 3

RECURSIVE Flatten(_)
Flatten(ss) == IF ss = <<>> THEN <<>> ELSE Head(ss) \o Flatten(Tail(ss))

\* The sequences of at most n elements of S.
SeqsAte(S, n) == UNION {[1..k -> S] : k \in 0..n}

\* The texts made of at most MaxFrags fragments.
Textos(frags) == {Flatten(fs) : fs \in SeqsAte(frags, MaxFrags)}

\* National IDs, in and out of the grouped format, next to a letter or not.
CorpusCpf == Textos({<<"1", "2", "3", ".", "4", "5", "6", ".", "7", "8", "9", "-", "0", "9">>, <<"9", "8", "7", "6", "5", "4", "3", "2", "1", "0", "0">>, <<"x">>, <<" ">>})

\* Candidates of RG, with and without one of the keywords before them.
CorpusRg == Textos({<<"r", "g", " ">>, <<"1", "2", "a", "3", "4", "5", "b", "6", "7", "8", "-", "9", " ">>, <<"1", "2", ".", "3", "4", "5", ".", "6", "7", "8", "-", "9">>})

\* Telephone numbers: area codes 05, 10 and 11, a number that is a CPF too.
CorpusTelefone ==
    Textos({<<"0", "5", "1", "2", "3", "4", "5", "6", "7", "8">>, <<"1", "0", "3", "4", "5", "6", "7", "8", "9", "0">>, <<"1", "1", "9", "8", "7", "6", "5", "4", "3", "2", "1">>, <<"(", "1", "1", ")", " ", "9", "1", "2", "3", "4", "-", "5", "6", "7", "8">>,
            <<" ">>})

\* Telephone numbers by their count of digits: 8 digits, 9 digits, 10 digits
\* with the area code 11, 11 digits with the area code 05, and the country
\* code, which after a number makes candidates of 12 and 13 digits.
CorpusDigitos ==
    Textos({<<"1", "2", "3", "4", "-", "5", "6", "7", "8", " ">>, <<"9", "1", "2", "3", "4", "-", "5", "6", "7", "8", " ">>, <<"1", "1", "3", "4", "5", "6", "7", "8", "9", "0">>, <<"0", "5", "9", "8", "7", "6", "5", "4", "3", "2", "1">>, <<"+", "5", "5", " ">>})

\* Addresses of the two patterns, an e-mail address, a no-break space.
CorpusEndereco ==
    Textos({<<"Q", "u", "a", "d", "r", "a", " ", "1", "2">>, <<"R", "u", "a", " ", "A", " ", "1">>, <<"a", "@", "b", ".", "c", "o">>, <<NBSP>>})

\* Names, a title, a word that is no name.
CorpusNome == Textos({<<"M", "a", "r", "i", "a", " ">>, <<"S", "i", "l", "v", "a", " ">>, <<"D", "r", ".", " ">>, <<"v", "e", "n", "h", "o", " ">>})

\* The texts a record of the source may hold.
Registros ==
    CorpusCpf \cup CorpusRg \cup CorpusTelefone \cup CorpusDigitos \cup CorpusEndereco
        \cup CorpusNome

\* The entities the recognizer may return for a text: spans of whole tokens of
\* the text, none overlapping another, in the order of the text, each with a
\* label.
Spans(text) ==
    {[start |-> a, stop |-> TokenStop(text, b)] :
        <<a, b>> \in {p \in TokenStarts(text) \X TokenStarts(text) : p[1] <= p[2]}}

Reconhecidos(text) ==
    {[i \in 1..Len(ss) |->
         [text |-> SubSeq(text, ss[i][1].start, ss[i][1].stop), label |-> ss[i][2]]] :
        ss \in {q \in SeqsAte(Spans(text) \X {"PER", "LOC"}, MaxEnts) :
                   \A i \in 1..(Len(q) - 1) : q[i][1].stop < q[i + 1][1].start}}

\* The values and the lists of the arbitrary mappings of resolver_conflitos.
Valores == {<<"1", "1", "9", "8", "7", "6", "5", "4", "3", "2", "1">>, <<"1", "2", "3", "4", "5", "6", "7", "8", "9">>}

\* The arbitrary mappings whose keys among CAMPOS are those of D (any of them
\* may be missing): each one present has a list of at most MaxLista values, and
\* there is an entry for email.
Mapeamentos(D) ==
    {[k \in D \cup {"email"} |-> IF k = "email" THEN <<<<"a", "@", "b", ".", "c", "o">>>> ELSE f[k]] :
        f \in [D -> SeqsAte(Valores, MaxLista)]}

\* The tokens of the arbitrary entity texts: names, connectors, titles, noise
\* suffixes, a forbidden word (capitalized or not), a pronoun, a common noun.
Tokens ==
    {<<"J", "o", "ã", "o">>, <<"S", "i", "l", "v", "a">>, <<"d", "a">>, <<"E">>, <<"D", "r", ".">>, <<"P", "R", "O", "F">>, <<"C", "P", "F", ":">>,
     <<"A", "s", "s", "o", "c", "i", "a", "ç", "ã", "o">>, <<"v", "e", "n", "h", "o">>, <<"N", "o", "s", "s", "a">>, <<"c", "a", "s", "a">>}

\* The arbitrary entity texts: at most two tokens, then at most MaxMeio times the
\* same token, then at most one token.
Entidades ==
    {Join(h \o [i \in 1..n |-> m] \o t) :
        h \in SeqsAte(Tokens, 2), n \in 0..MaxMeio, m \in {<<"S", "o", "u", "z", "a">>, <<"d", "e">>},
        t \in SeqsAte(Tokens, 1)}

\* The mapping before extract_all has run.
Vazio == [cpf |-> <<>>, rg |-> <<>>, email |-> <<>>, telefone |-> <<>>,
          endereco |-> <<>>]

(***************************************************************************)
(* The program                                                             *)
(***************************************************************************)
VARIABLES
    pc,       \* where the program stands
    record,   \* the text of the record being processed, as read
    text,     \* the local text of detect_pii
    pii,      \* the mapping under construction
    ents,     \* doc.ents, what the recognizer returned for text
    verdict,  \* the last verdict printed
    nlp,      \* the global _nlp
    loads,    \* how many times spacy.load has run
    arg,      \* the argument of the function applied on its own
    nome,     \* the entity text being cleaned
    valido    \* what nome_valido returned (FALSE before it has run)

vars == <<pc, record, text, pii, ents, verdict, nlp, loads, arg, nome, valido>>

Init ==
    /\ pc = "ready"
    /\ record = <<>>
    /\ text = <<>>
    /\ pii = Vazio
    /\ ents = <<>>
    /\ verdict = ""
    /\ nlp = None
    /\ loads = 0
    /\ arg = <<>>
    /\ nome = <<>>
    /\ valido = FALSE

\* for idx, text in enumerate(texts): the call detect_pii(text)
ReadRecord ==
    /\ pc = "ready"
    /\ \E t \in Registros : record' = t /\ text' = t
    /\ pii' = Vazio
    /\ ents' = <<>>
    /\ pc' = "normalize"
    /\ UNCHANGED <<verdict, nlp, loads, arg, nome, valido>>

\* text = normalize(text)
Normalize ==
    /\ pc = "normalize"
    /\ text' = normalize(text)
    /\ pc' = "extract"
    /\ UNCHANGED <<record, pii, ents, verdict, nlp, loads, arg, nome, valido>>

\* pii = extract_all(text)
ExtractAll ==
    /\ pc = "extract"
    /\ pii' \in Mapeados(extract_all(text))
    /\ pc' = "resolve"
    /\ UNCHANGED <<record, text, ents, verdict, nlp, loads, arg, nome, valido>>

\* pii = resolver_conflitos(pii)
ResolverConflitos ==
    /\ pc = "resolve"
    /\ pii' = resolver_conflitos(pii)
    /\ pc' = "get_nlp"
    /\ UNCHANGED <<record, text, ents, verdict, nlp, loads, arg, nome, valido>>

\* get_nlp() in extract_names, spacy.load returning when it runs
GetNlp ==
    /\ pc = "get_nlp"
    /\ loads < MaxLoads
    /\ nlp' = get_nlp(nlp, loads).nlp
    /\ loads' = get_nlp(nlp, loads).loads
    /\ pc' = "names"
    /\ UNCHANGED <<record, text, pii, ents, verdict, arg, nome, valido>>

\* get_nlp() in extract_names, spacy.load raising: the exception ends the program
GetNlpFails ==
    /\ pc = "get_nlp"
    /\ nlp = None
    /\ pc' = "aborted"
    /\ UNCHANGED <<record, text, pii, ents, verdict, nlp, loads, arg, nome, valido>>

\* doc = get_nlp()(text) and the rest of extract_names; pii["nome"] = its result
ExtractNames ==
    /\ pc = "names"
    /\ \E es \in Reconhecidos(text) :
          /\ ents' = es
          /\ \E l \in Listas(extract_names(es)) :
                pii' = [k \in DOMAIN pii \cup {"nome"} |->
                           IF k = "nome" THEN l ELSE pii[k]]
    /\ pc' = "classify"
    /\ UNCHANGED <<record, text, verdict, nlp, loads, arg, nome, valido>>

\* print(classificar_pedido(pii))
ClassificarPedido ==
    /\ pc = "classify"
    /\ verdict' = classificar_pedido(pii)
    /\ pc' = "report"
    /\ UNCHANGED <<record, text, pii, ents, nlp, loads, arg, nome, valido>>

\* The prints of the non-empty entries of pii, which end the iteration.  The
\* text and the mapping of the record are not read again: the next iteration
\* overwrites them.
Report ==
    /\ pc = "report"
    /\ pc' = "ready"
    /\ record' = <<>>
    /\ text' = <<>>
    /\ pii' = Vazio
    /\ ents' = <<>>
    /\ UNCHANGED <<verdict, nlp, loads, arg, nome, valido>>

Next ==
    \/ ReadRecord
    \/ Normalize
    \/ ExtractAll
    \/ ResolverConflitos
    \/ GetNlp
    \/ GetNlpFails
    \/ ExtractNames
    \/ ClassificarPedido
    \/ Report

Spec == Init /\ [][Next]_vars

(***************************************************************************)
(* resolver_conflitos on its own, applied to an arbitrary mapping and then *)
(* to its own result                                                       *)
(***************************************************************************)
InitResolver ==
    /\ pc = "arg"
    /\ \E D \in SUBSET Range(CAMPOS) : arg \in Mapeamentos(D)
    /\ pii = arg
    /\ record = <<>>
    /\ text = <<>>
    /\ ents = <<>>
    /\ verdict = ""
    /\ nlp = None
    /\ loads = 0
    /\ nome = <<>>
    /\ valido = FALSE

AplicarResolver ==
    /\ pc \in {"arg", "once"}
    /\ pii' = resolver_conflitos(pii)
    /\ pc' = IF pc = "arg" THEN "once" ELSE "twice"
    /\ UNCHANGED <<record, text, ents, verdict, nlp, loads, arg, nome, valido>>

NextResolver == AplicarResolver

SpecResolver == InitResolver /\ [][NextResolver]_vars

(***************************************************************************)
(* The body of the loop of extract_names on its own, for one entity of     *)
(* label PER with an arbitrary text                                        *)
(***************************************************************************)
InitNome ==
    /\ pc = "ent"
    /\ arg \in Entidades
    /\ nome = arg
    /\ valido = FALSE
    /\ record = <<>>
    /\ text = <<>>
    /\ pii = Vazio
    /\ ents = <<>>
    /\ verdict = ""
    /\ nlp = None
    /\ loads = 0

\* raw = ent.text.strip(); the entity is dropped when raw.lower() starts with a
\* formal address
Tratamento ==
    /\ pc = "ent"
    /\ nome' = Strip(nome, Space)
    /\ pc' = IF \E t \in TRATAMENTOS_FORMAIS : StartsWith(Lower(Strip(nome, Space)), t)
             THEN "dropped" ELSE "raw"
    /\ UNCHANGED <<record, text, pii, ents, verdict, nlp, loads, arg, valido>>

\* clean = limpar_titulos(raw)
LimparTitulos ==
    /\ pc = "raw"
    /\ nome' = limpar_titulos(nome)
    /\ pc' = "titulos"
    /\ UNCHANGED <<record, text, pii, ents, verdict, nlp, loads, arg, valido>>

\* clean = limpar_sufixos(clean)
LimparSufixos ==
    /\ pc = "titulos"
    /\ nome' = limpar_sufixos(nome)
    /\ pc' = "sufixos"
    /\ UNCHANGED <<record, text, pii, ents, verdict, nlp, loads, arg, valido>>

\* if nome_valido(clean)
NomeValido ==
    /\ pc = "sufixos"
    /\ valido' = nome_valido(nome)
    /\ pc' = "validado"
    /\ UNCHANGED <<record, text, pii, ents, verdict, nlp, loads, arg, nome>>

NextNome == Tratamento \/ LimparTitulos \/ LimparSufixos \/ NomeValido

SpecNome == InitNome /\ [][NextNome]_vars

(***************************************************************************)
(* Properties                                                              *)
(***************************************************************************)
\* The campos of CAMPOS under which mapping m lists the value v.
CamposDe(m, v) == {j \in 1..Len(CAMPOS) : v \in Range(Get(m, CAMPOS[j]))}

\* The values mapping m lists under one or more of CAMPOS.
Contestados(m) == UNION {Range(Get(m, CAMPOS[j])) : j \in 1..Len(CAMPOS)}

\* C1: once resolver_conflitos has returned, every value that the input mapping
\* listed under one or more of cpf, rg, telefone, endereco is listed under
\* exactly one of them, the earliest in that order that listed it (so no value
\* is listed under two of them).
C1_UmSoTipo ==
    pc \in {"once", "twice"} =>
        \A v \in Contestados(arg) : CamposDe(pii, v) = {Min(CamposDe(arg, v))}

\* resolver_conflitos has returned for a mapping that listed one value under
\* several of the four types.
C1_Witness ==
    /\ pc = "once"
    /\ \E v \in Contestados(arg) : Cardinality(CamposDe(arg, v)) >= 3

\* C2: resolver_conflitos applied to its own result changes nothing.
C2_Idempotente == [][pc = "once" /\ pc' = "twice" => pii' = pii]_vars

\* resolver_conflitos has been applied twice, the first time to a mapping in
\* which it had values to drop.
C2_Witness ==
    /\ pc = "twice"
    /\ \E j \in 1..Len(CAMPOS) : Get(arg, CAMPOS[j]) # pii[CAMPOS[j]]
    /\ \E j \in 1..Len(CAMPOS) : Len(pii[CAMPOS[j]]) >= 2

\* The six types of a mapping of detect_pii.
SeisTipos == {"cpf", "rg", "email", "telefone", "endereco", "nome"}

\* C3: the verdict of classificar_pedido on a mapping of detect_pii is the
\* non-public one exactly when one of the six lists is not empty, and the
\* public one otherwise.
C3_Veredito ==
    pc = "report" =>
        /\ verdict = NAO_PUBLICO <=> \E k \in SeisTipos : Len(pii[k]) > 0
        /\ verdict # NAO_PUBLICO => verdict = PUBLICO

\* A record in which the only sensitive data is a name has been classified.
C3_Witness ==
    /\ pc = "report"
    /\ Len(pii.nome) > 0
    /\ \A k \in SeisTipos \ {"nome"} : pii[k] = <<>>
    /\ verdict = NAO_PUBLICO

\* An 11-digit national ID in the grouped format ddd.ddd.ddd-dd stands at
\* position i of s.
CpfAgrupadoEm(s, i) ==
    /\ i + 14 <= Len(s)
    /\ \A k \in 1..14 :
          IF k \in {4, 8} THEN s[i + k] = "."
          ELSE IF k = 12 THEN s[i + k] = "-"
          ELSE s[i + k] \in Digit

\* C4, as claimed: for a text that holds a national ID in the grouped format,
\* the cpf list of detect_pii holds the digits of the ID, the punctuation
\* stripped, and the verdict is the non-public one.
C4_Original ==
    pc = "report" =>
        \A i \in 0..Len(record) :
            CpfAgrupadoEm(record, i) =>
                /\ OnlyDigits(Slice(record, i, i + 14)) \in Range(pii.cpf)
                /\ verdict = NAO_PUBLICO

\* C4, amended: for a text that holds a national ID in the grouped format
\* between two word boundaries, the cpf list of detect_pii holds the ID as it
\* is written, punctuation included, and the verdict is the non-public one.
C4_Literal ==
    pc = "report" =>
        \A i \in 0..Len(record) :
            /\ CpfAgrupadoEm(record, i)
            /\ AtBoundary(record, i)
            /\ AtBoundary(record, i + 14)
            => /\ Slice(record, i, i + 14) \in Range(pii.cpf)
               /\ verdict = NAO_PUBLICO

\* A record with a grouped national ID between word boundaries, and more text
\* around it, has been classified.
C4_Witness ==
    /\ pc = "report"
    /\ Len(record) > 14
    /\ \E i \in 0..Len(record) :
          /\ CpfAgrupadoEm(record, i)
          /\ AtBoundary(record, i)
          /\ AtBoundary(record, i + 14)
          /\ Slice(record, i, i + 14) \in Range(pii.cpf)

\* The candidate r stands at position i of s, letter for letter.
OcorreEm(s, r, i) == i + Len(r) <= Len(s) /\ Slice(s, i, i + Len(r)) = r

\* The 15 characters of s before position i, lower-cased, hold a keyword of
\* the identity document.
ChaveAntes(s, i) ==
    \E p \in {<<"r", "g">>, <<"r", "e", "g", "i", "s", "t", "r", "o", " ", "g", "e", "r", "a", "l">>, <<"i", "d", "e", "n", "t", "i", "d", "a", "d", "e">>} :
        Contains(Lower(Slice(s, Max(0, i - 15), i)), p)

\* C5: a candidate is in the rg list only if it has 7 to 9 digits and one of
\* its literal occurrences in the text has a keyword in the 15 characters
\* before it.
C5_Claim ==
    pc = "resolve" =>
        \A r \in Range(pii.rg) :
            /\ Len(OnlyDigits(r)) \in 7..9
            /\ \E i \in 0..Len(text) : OcorreEm(text, r, i) /\ ChaveAntes(text, i)

\* The digits of t, as positions of t.
PosDigitos(t) == {i \in 1..Len(t) : t[i] \in Digit}

\* t has 10 or 11 digits, the first two of which make a number from 11 to 99.
TelefoneAceitavel(t) ==
    /\ Cardinality(PosDigitos(t)) \in {10, 11}
    /\ LET i1 == Min(PosDigitos(t))
           i2 == Min(PosDigitos(t) \ {i1})
       IN  10 * DigitValue[t[i1]] + DigitValue[t[i2]] \in 11..99

\* C6: of the candidates that TELEFONE matches, extract_all keeps exactly those
\* that have 10 or 11 digits and an area code (their first two digits) from 11
\* to 99; no other ever stands in the telefone list.
C6_Telefone ==
    /\ pc = "resolve" =>
          \A t \in extract(TELEFONE, text) :
              t \in Range(pii.telefone) <=> TelefoneAceitavel(t)
    /\ pc \in {"get_nlp", "names", "classify", "report"} =>
          \A t \in Range(pii.telefone) : TelefoneAceitavel(t)

\* TELEFONE has matched a candidate of 8 digits, which extract_all has left out
\* although its first two digits make 12, next to one of 10 digits, which it has
\* kept.
C6_Witness ==
    /\ pc = "resolve"
    /\ \E t \in extract(TELEFONE, text) :
          /\ Slice(OnlyDigits(t), 0, 2) = <<"1", "2">>
          /\ Len(OnlyDigits(t)) = 8
          /\ t \notin Range(pii.telefone)
    /\ \E t \in Range(pii.telefone) : Len(OnlyDigits(t)) = 10

\* The tokens are those of a name as C7 describes it.
NomeBemFormado(tokens) ==
    /\ Len(tokens) >= 2
    /\ Len(tokens) <= 7
    /\ Lower(tokens[1]) \notin {<<"n", "o", "s", "s", "a">>, <<"n", "o", "s", "s", "o">>, <<"s", "u", "a", "s">>, <<"s", "e", "u", "s">>}
    /\ tokens[1] # tokens[Len(tokens)]
    /\ \A i \in 1..Len(tokens) :
          Lower(tokens[i]) \notin {<<"d", "a">>, <<"d", "e">>, <<"d", "o">>, <<"d", "a", "s">>, <<"d", "o", "s">>, <<"e">>} =>
              /\ Lower(tokens[i]) \notin PALAVRAS_PROIBIDAS
              /\ tokens[i][1] \in DOMAIN ToLower

\* C7: nome_valido accepts the cleaned tokens exactly when there are 2 to 7 of
\* them, the first is no pronoun of nossa/nosso/suas/seus, the first and the
\* last differ, and every token that is no connector is no forbidden word and
\* starts with a capital.
C7_NomeValido == pc = "validado" => (valido <=> NomeBemFormado(Split(nome)))

\* nome_valido has accepted a name with a connector inside it.
C7_Witness ==
    /\ pc = "validado"
    /\ valido
    /\ \E i \in 2..(Len(Split(nome)) - 1) : Lower(Split(nome)[i]) \in PREPOSICOES_NOME

\* C8: the recognizer is built at most once.  Nothing is built before the first
\* call of get_nlp, the first call that returns has built instance 1, and once
\* there is an instance no step replaces it or builds another.
C8_Singleton ==
    [][/\ nlp # None => nlp' = nlp /\ loads' = loads
       /\ loads' <= 1
       /\ nlp' = None <=> loads' = 0
       /\ pc = "get_nlp" /\ pc' = "names" => nlp' # None]_vars

\* get_nlp has returned for a second record (a verdict has been printed
\* before), with the one instance.
C8_Witness ==
    /\ pc = "names"
    /\ verdict # ""
    /\ nlp = 1
    /\ loads = 1

\* C9: every substring of the text that QUADRA_LOTE matches as a whole (keyword
\* and identifier) and that passes endereco_valido is a candidate of
\* extract_endereco and stands in the endereco list.
C9_Claim ==
    pc = "resolve" =>
        \A w \in Range(FindAll(QUADRA_LOTE, text)) :
            endereco_valido(w) =>
                w \in Range(encontrados(text)) /\ w \in Range(pii.endereco)

\* The tokens of ts that are no title, as positions of ts.
NaoTitulos(ts) == {i \in 1..Len(ts) : Lower(ts[i]) \notin TITULOS}

\* The largest element of a non-empty set of integers.
Maior(S) == CHOOSE m \in S : \A n \in S : n <= m

\* ts without the titles at its two ends.
SemTitulosNasPontas(ts) ==
    IF NaoTitulos(ts) = {} THEN <<>>
    ELSE SubSeq(ts, Min(NaoTitulos(ts)), Maior(NaoTitulos(ts)))

\* C10, as claimed: limpar_titulos removes the titles at the two ends of the
\* span only, and keeps every token between two tokens that are no title.
C10_Original ==
    pc = "titulos" => Split(nome) = SemTitulosNasPontas(Split(arg))

\* C10, amended: limpar_titulos removes every token that is a title, wherever
\* it stands in the span, and keeps the tokens that are no title, in their
\* order.
C10_TodosOsTitulos ==
    pc = "titulos" =>
        /\ Len(Split(nome)) = Cardinality(NaoTitulos(Split(arg)))
        /\ \A i \in NaoTitulos(Split(arg)) :
              Split(nome)[Cardinality({k \in NaoTitulos(Split(arg)) : k <= i})]
                  = Split(arg)[i]

\* limpar_titulos has removed a title that stood between two tokens that are
\* no title.
C10_Witness ==
    /\ pc = "titulos"
    /\ \E i \in 2..(Len(Split(arg)) - 1) :
          /\ i \notin NaoTitulos(Split(arg))
          /\ Min(NaoTitulos(Split(arg)) \cup {i}) < i
          /\ Maior(NaoTitulos(Split(arg)) \cup {i}) > i
    /\ Len(Split(nome)) < Len(Split(arg))

====
